---- MODULE Spec2Model ----
(***************************************************************************)
(* State-machine model of CppCondaEnvWorker                                *)
(* (ramp-engine/ramp_engine/cpp_runner.py): the worker that compiles a     *)
(* submission, runs it on the test cases in batches of sandboxed           *)
(* processes, calls the judge and hands the result to collect_results.     *)
(*                                                                         *)
(* launch_submission is synchronous; its position is pc.  Wall-clock time  *)
(* (time.perf_counter) is the integer `now`, read relative to the entry    *)
(* of launch_submission; it advances (Tick) while the call blocks in       *)
(* communicate, the other statements take no time.  A test-case process    *)
(* that was started and not yet reaped or killed counts as live: it ends   *)
(* on its own at any moment, which communicate observes (Join).            *)
(***************************************************************************)
EXTENDS Integers, Sequences, FiniteSets

\* ---- program constants (cpp_runner.py) ----
EMPTY_SUBMISSION == 1223
COMPILATION_ERROR == 1220
RUNTIME_ERROR == 1221
SCORING_ERROR == 1222
TIMEOUT_CODE == 124
SEGFAULT_CODE == 139
batch_size == 5
N_BATCHES == 4
LAST_CASE == 9
EMPTY_LEN == 3
CPP_MIN_LEN == 10

\* ---- bounds of the model ----
MaxTime == 2
MaxTimeout == 2
\* launch_submission is called again while at most MaxOrphans earlier processes are left
MaxOrphans == 1

\* ---- input domains ----
Absent == -1
\* stripped length of a source file, or Absent when the file does not exist
FileLens == {Absent, 2, 11}
\* exit codes a test-case process can be observed with (Popen.returncode):
\* killed by a signal (negative), success, plain failure, segmentation fault,
\* exit(-1)
Codes == {-9, 0, 1, SEGFAULT_CODE, 255}
CompilerOutputs == {<<"error: expected ';'">>, <<"error: 'x' was not declared">>}
Cases == 0..LAST_CASE

NoDir == [exists |-> FALSE, output |-> FALSE, cases |-> {}, score |-> FALSE]
\* outcome of a call: the method, how it ended, and what collect_results returned
Outcome(op, kind) == [op |-> op, kind |-> kind, code |-> 0, msg |-> <<>>]
NoRet == Outcome("none", "none")

VARIABLES
    status,           \* self.status
    return_code,      \* self._return_code
    python_bin_path,  \* TRUE once setup() has set self._python_bin_path
    timeout,          \* self.timeout (configuration)
    solution_cpp,     \* stripped length of submissions_dir/<name>/solution.cpp
    main_java,        \* stripped length of submissions_dir/<name>/Main.java
    compiles,         \* whether the toolchain accepts the submitted source
    kit_dir,          \* whether kit_dir/submissions is submissions_dir: "same" or
                      \* "other"; "unread" until teardown() first reads the key
    log,              \* content of logs_dir/<name>/log
    training_output,  \* submissions_dir/<name>/training_output
    pred_dir,         \* predictions_dir/<name>
    pc,               \* position inside launch_submission, "idle" outside it
    now,              \* time.perf_counter()
    n_batch, sub_idx, t0, procs, p_pos, endtime,  \* locals of launch_submission
    proc,             \* state of the process started for each test case
    orphans,          \* live processes of launches that have returned
    max_observed,     \* largest return code read so far in this launch, 0 before any
    launch_time,      \* perf_counter when the first batch started
    compiler,         \* toolchain invoked by this launch
    judge,            \* judge invocation of this launch
    ret               \* outcome of the last call on the worker

\* ---- rampbkd/api.py: the database of submissions ----
VARIABLES
    db,               \* committed rows: state of each submission and of its CV folds
    api_ret           \* outcome of the last call of the backend API

\* bounds of the database
NSubmissions == 2
NFolds == 2
Submissions == 1..NSubmissions
\* fold_id of enumerate(submission.on_cv_folds)
Folds == 0..(NFolds - 1)

\* rampbkd.config.STATES
STATES == {"new", "training", "tested", "scored"}
\* states a caller may pass
RequestStates == STATES \cup {"bogus"}
\* extensions a caller may pass
Extensions == {"npy", "NPZ", "csv", "txt"}

NoApiRet == [op |-> "none", kind |-> "none", arg |-> "", touched |-> FALSE, result |-> {}]

\* Submission.set_state(state): the submission and its folds take the state
set_state(state) == [state |-> state, folds |-> [f \in Folds |-> state]]

\* the database as no call of the API has changed it
ApiQuiet ==
    /\ db = [s \in Submissions |-> set_state("new")]
    /\ api_ret = NoApiRet

api_vars == <<db, api_ret>>

\* ---- ramp_frontend/views/team.py, ramp_database/tools/team.py ----
VARIABLES
    teams,            \* rows of Team that are not individual teams
    user_teams,       \* rows of UserTeam: status of each user in each such team
    event_teams,      \* rows of EventTeam (approved): <<event, team>>
    team_ret          \* outcome of the last request or call

Users == {"alice", "bob"}
Anonymous == "anonymous"
Events == {"iris", "boston_housing"}
NonExistingEvent == "non-existing-event"
\* names of teams that are not the name of a user
SharedTeams == {"team_a"}
\* add_user creates the individual team of a user, named after the user
TeamNames == Users \cup SharedTeams

NoTeamRet == [op |-> "none", user |-> Anonymous, event |-> NonExistingEvent,
              status |-> 0, location |-> "", left |-> {}]

\* the tables as add_user and add_event leave them
TeamQuiet ==
    /\ teams = {}
    /\ user_teams = [p \in Users \X SharedTeams |-> "none"]
    /\ event_teams = {}
    /\ team_ret = NoTeamRet

team_db == <<teams, user_teams, event_teams>>
team_vars == <<team_db, team_ret>>

\* ---- the Dispatcher and its pool of workers ----
VARIABLES
    capacity,         \* configured number of workers N
    store,            \* state of each submission in the Store
    pool              \* the live workers, as the Dispatcher holds them

MaxCapacity == 2
NPending == 3
\* submissions of the Store, numbered in the order they were submitted
Pending == 1..NPending

\* a Dispatcher that has not run a cycle
PoolQuiet ==
    /\ capacity = 1
    /\ store = [s \in Pending |-> "new"]
    /\ pool = <<>>

pool_vars == <<capacity, store, pool>>

\* variables of the components a worker does not touch
others == <<api_vars, team_vars, pool_vars>>

locals == <<n_batch, sub_idx, t0, procs, p_pos, endtime>>
inputs == <<timeout, solution_cpp, main_java, compiles>>
config == <<inputs, kit_dir>>
worker_vars == <<status, return_code, python_bin_path, config, log, training_output,
                 pred_dir, pc, now, locals, proc, orphans, max_observed, launch_time,
                 compiler, judge, ret>>
vars == <<worker_vars, others>>

Max(a, b) == IF a >= b THEN a ELSE b

\* ---- is_cpp_submission / is_empty_submission ----
is_cpp_submission == solution_cpp # Absent /\ solution_cpp > CPP_MIN_LEN

is_empty_submission ==
    /\ solution_cpp # Absent /\ solution_cpp < EMPTY_LEN
    /\ main_java # Absent /\ main_java < EMPTY_LEN

\* the source file handed to the compiler exists
SourcePresent == IF is_cpp_submission THEN solution_cpp # Absent ELSE main_java # Absent

Init ==
    /\ status = "initialized"
    /\ return_code = 0
    /\ python_bin_path = FALSE
    /\ timeout \in 1..MaxTimeout
    /\ solution_cpp \in FileLens
    /\ main_java \in FileLens
    /\ compiles \in BOOLEAN
    /\ (~SourcePresent => ~compiles)
    /\ kit_dir = "unread"
    /\ log = <<>>
    /\ training_output = NoDir
    /\ pred_dir = NoDir
    /\ pc = "idle"
    /\ now = 0
    /\ n_batch = 0 /\ sub_idx = 0 /\ t0 = 0 /\ procs = <<>> /\ p_pos = 0 /\ endtime = 0
    /\ proc = [i \in Cases |-> "none"]
    /\ orphans = 0
    /\ max_observed = 0
    /\ launch_time = 0
    /\ compiler = "none"
    /\ judge = "not_invoked"
    /\ ret = NoRet
    /\ ApiQuiet
    /\ TeamQuiet
    /\ PoolQuiet

\* a worker nothing is called on
WorkerQuiet ==
    /\ status = "initialized"
    /\ return_code = 0
    /\ python_bin_path = FALSE
    /\ timeout = 1
    /\ solution_cpp = Absent
    /\ main_java = Absent
    /\ compiles = FALSE
    /\ kit_dir = "unread"
    /\ log = <<>>
    /\ training_output = NoDir
    /\ pred_dir = NoDir
    /\ pc = "idle"
    /\ now = 0
    /\ n_batch = 0 /\ sub_idx = 0 /\ t0 = 0 /\ procs = <<>> /\ p_pos = 0 /\ endtime = 0
    /\ proc = [i \in Cases |-> "none"]
    /\ orphans = 0
    /\ max_observed = 0
    /\ launch_time = 0
    /\ compiler = "none"
    /\ judge = "not_invoked"
    /\ ret = NoRet

Live == {i \in Cases : proc[i] = "live"}
LiveCount == orphans + Cardinality(Live)

\* launch_submission returns (or raises): its locals are gone, the processes
\* it has not reaped keep running unreferenced
Return(kind) ==
    /\ pc' = "idle"
    /\ now' = 0
    /\ n_batch' = 0 /\ sub_idx' = 0 /\ t0' = 0 /\ procs' = <<>> /\ p_pos' = 0 /\ endtime' = 0
    /\ proc' = [i \in Cases |-> "none"]
    /\ orphans' = orphans + Cardinality(Live)
    /\ ret' = Outcome("launch_submission", kind)

\* the worker setup() is called on: a fresh one
SetupAllowed(st) == st = "initialized"

\* super().setup(): the worker is set up
super_setup == "setup"

\* ---- setup(), lines 94-115 (the configuration holds every required key) ----
setup ==
    /\ pc = "idle"
    /\ SetupAllowed(status)
    /\ python_bin_path' = TRUE
    /\ status' = super_setup
    /\ ret' = Outcome("setup", "returned")
    /\ UNCHANGED <<return_code, config, log, training_output, pred_dir, pc, now,
                   locals, proc, orphans, max_observed, launch_time, compiler, judge>>

\* ---- launch_submission(), lines 163-233: guard, directories, empty check, compile ----
\* (status "running" is the only state the guard of line 163 rejects)
launch_submission ==
    /\ pc = "idle"
    /\ status # "running"
    /\ orphans <= MaxOrphans
    /\ status' = "finished"
    /\ max_observed' = 0
    /\ judge' = "not_invoked"
    /\ launch_time' = 0
    /\ UNCHANGED <<python_bin_path, config, pred_dir>>
    /\ IF is_empty_submission
       THEN /\ return_code' = EMPTY_SUBMISSION
            /\ compiler' = "none"
            /\ log' = <<>>
            /\ training_output' = [training_output EXCEPT !.exists = TRUE]
            /\ Return("returned")
       ELSE /\ compiler' = IF is_cpp_submission THEN "gcc" ELSE "javac"
            /\ IF compiles
               THEN /\ return_code' = 0
                    /\ log' = <<>>  \* line 233, after the copy to compilation-log
                    /\ training_output' =
                           [training_output EXCEPT !.exists = TRUE, !.output = TRUE]
                    /\ pc' = "batch"
                    /\ now' = 0
                    /\ n_batch' = 0
                    /\ orphans' = orphans + Cardinality(Live)
                    /\ proc' = [i \in Cases |-> "none"]
                    /\ ret' = Outcome("launch_submission", "pending")
                    /\ UNCHANGED <<sub_idx, t0, procs, p_pos, endtime>>
               ELSE /\ return_code' = COMPILATION_ERROR
                    /\ \E out \in CompilerOutputs : log' = out
                    /\ training_output' = [training_output EXCEPT !.exists = TRUE]
                    /\ Return("returned")

\* ---- lines 238-240: next batch, or the end of the loop ----
BatchStart ==
    /\ pc = "batch"
    /\ IF n_batch < N_BATCHES
       THEN /\ t0' = now
            /\ launch_time' = IF n_batch = 0 THEN now ELSE launch_time
            /\ procs' = <<>>
            /\ sub_idx' = 0
            /\ pc' = "popen"
       ELSE /\ pc' = "aggregate"
            /\ UNCHANGED <<t0, launch_time, procs, sub_idx>>
    /\ UNCHANGED <<status, return_code, python_bin_path, config, log, training_output,
                   pred_dir, now, n_batch, p_pos, endtime, proc, orphans, max_observed,
                   compiler, judge, ret>>

\* faulty variant of CaseIdx: the batch number is left out of the index
CaseIdxOfFirstBatch(nb, si) == si

\* test case started by position sub_idx of batch n_batch (line 242)
CaseIdx(nb, si) == batch_size * nb + si

\* ---- lines 241-269: start one sandboxed process per test case of the batch ----
\* (the input fixtures data_dir/input/case<idx>.in exist)
Popen ==
    /\ pc = "popen"
    /\ IF sub_idx < batch_size
       THEN LET idx == CaseIdx(n_batch, sub_idx) IN
            /\ sub_idx' = sub_idx + 1
            /\ IF idx > LAST_CASE
               THEN UNCHANGED <<proc, procs, training_output>>
               ELSE /\ proc' = [proc EXCEPT ![idx] = "live"]
                    /\ procs' = Append(procs, idx)
                    /\ training_output' =
                           [training_output EXCEPT !.cases = @ \cup {idx}]
            /\ UNCHANGED <<pc, p_pos>>
       ELSE /\ pc' = "wait"
            /\ p_pos' = 1
            /\ UNCHANGED <<sub_idx, proc, procs, training_output>>
    /\ UNCHANGED <<status, return_code, python_bin_path, config, log, pred_dir, now,
                   n_batch, t0, endtime, orphans, max_observed, launch_time, compiler, judge, ret>>

\* line 272: time remaining for the wait
Remaining(start, limit, clock) == Max(start + limit - clock, 0)

\* faulty variant of BatchDone: the loop leaves the last process of the batch unvisited
BatchDoneEarly(pos, batch) == pos >= Len(batch)

\* line 270: the loop over procs has visited every process of the batch
BatchDone(pos, batch) == pos > Len(batch)

\* ---- lines 270-276: next process of the batch, remaining time, dt == 0 ----
Wait ==
    /\ pc = "wait"
    /\ IF BatchDone(p_pos, procs)
       THEN /\ n_batch' = n_batch + 1
            /\ pc' = "batch"
            /\ UNCHANGED <<status, return_code, now, sub_idx, t0, procs, p_pos, endtime,
                           proc, orphans, ret>>
       ELSE LET dt == Remaining(t0, timeout, now) IN
            IF dt = 0
            THEN /\ status' = "timeout"
                 /\ return_code' = TIMEOUT_CODE
                 /\ Return("returned")
            ELSE /\ endtime' = now + dt
                 /\ pc' = "communicate"
                 /\ UNCHANGED <<status, return_code, now, n_batch, sub_idx, t0, procs,
                                p_pos, proc, orphans, ret>>
    /\ UNCHANGED <<python_bin_path, config, log, training_output, pred_dir, max_observed,
                   launch_time, compiler, judge>>

\* faulty variant of Aggregate: the last return code read replaces the aggregate
AggregateLast(code, rc) == code

\* line 279: the aggregate of the return codes
Aggregate(code, rc) == Max(code, rc)

\* line 281-282: p.kill() on every process of the batch
KillAll(pr, batch) ==
    [i \in Cases |-> IF pr[i] = "live" /\ \E k \in 1..Len(batch) : batch[k] = i
                     THEN "killed" ELSE pr[i]]

\* ---- lines 277-279: p.communicate(timeout=dt) returns, the process has ended ----
\* (a live process ends whenever it likes; its end is observed here)
Join ==
    /\ pc = "communicate"
    /\ LET p == procs[p_pos] IN
       \E code \in Codes :
            /\ return_code' = Aggregate(code, return_code)
            /\ max_observed' = IF code > max_observed THEN code ELSE max_observed
            /\ proc' = [proc EXCEPT ![p] = "joined"]
            /\ p_pos' = p_pos + 1
            /\ pc' = "wait"
    /\ UNCHANGED <<status, python_bin_path, config, log, training_output, pred_dir,
                   now, n_batch, sub_idx, t0, procs, endtime, orphans, launch_time,
                   compiler, judge, ret>>

\* ---- lines 280-285: subprocess.TimeoutExpired, the process is still running ----
TimeoutExpired ==
    /\ pc = "communicate"
    /\ now >= endtime
    /\ status' = "timeout"
    /\ return_code' = TIMEOUT_CODE
    /\ pc' = "idle"
    /\ now' = 0
    /\ n_batch' = 0 /\ sub_idx' = 0 /\ t0' = 0 /\ procs' = <<>>
    /\ p_pos' = 0 /\ endtime' = 0
    /\ orphans' = orphans
                  + Cardinality({i \in Cases : KillAll(proc, procs)[i] = "live"})
    /\ proc' = [i \in Cases |-> "none"]
    /\ ret' = Outcome("launch_submission", "returned")
    /\ UNCHANGED <<python_bin_path, config, log, training_output, pred_dir, max_observed,
                   launch_time, compiler, judge>>

\* faulty variant of SkipJudge: the sign of the test is inverted
SkipJudgeNegative(rc) == rc < 0

\* line 288: a positive aggregate ends launch_submission before the judge
SkipJudge(rc) == rc > 0

\* ---- lines 288-315: skip the judge on a positive code, else score ----
Score ==
    /\ pc = "aggregate"
    /\ UNCHANGED <<status, python_bin_path, config, pred_dir, max_observed, launch_time,
                   compiler>>
    /\ IF SkipJudge(return_code)
       THEN /\ Return("returned")
            /\ UNCHANGED <<return_code, log, training_output, judge>>
       ELSE IF ~python_bin_path
       THEN \* line 304 reads self._python_bin_path, which only setup() sets
            /\ Return("AttributeError")
            /\ log' = <<>>
            /\ UNCHANGED <<return_code, training_output, judge>>
       ELSE \E ok \in BOOLEAN :
            /\ judge' = IF ok THEN "passed" ELSE "failed"
            /\ return_code' = IF ok THEN return_code ELSE SCORING_ERROR
            /\ log' = IF ok THEN <<>> ELSE <<"judge: wrong answer format">>
            /\ training_output' = [training_output EXCEPT !.score = ok]
            /\ Return("returned")

\* ---- environment: time passes while launch_submission blocks in communicate ----
Tick ==
    /\ pc = "communicate"
    /\ now < MaxTime
    /\ now' = now + 1
    /\ UNCHANGED <<status, return_code, python_bin_path, config, log, training_output,
                   pred_dir, pc, locals, proc, orphans, max_observed, launch_time, compiler,
                   judge, ret>>

\* the processes left behind by earlier launches end (the sandbox's own limit)
OrphansEnd ==
    /\ orphans > 0
    /\ orphans' = 0
    /\ UNCHANGED <<status, return_code, python_bin_path, config, log, training_output,
                   pred_dir, pc, now, locals, proc, max_observed, launch_time, compiler,
                   judge, ret>>

\* ---- collect_results(), lines 341-361: the message ----
PAUSE_NOT_FOUND == "sh: 1: pause: not found"
OUT_OF_MEMORY == "Killed due to out of memory (limit at 500 MB)"

\* _get_traceback(log_output): the text of the log
get_traceback(text) == text

\* str.replace on a text held as a sequence of lines
Replace(text, old, new) ==
    [k \in 1..Len(text) |-> IF text[k] = old THEN new ELSE text[k]]

\* faulty variant of Message: the fixed text of the empty submission is given to the
\* compilation error
MessageWrongCode(st, returncode, text) ==
    LET m0 == get_traceback(text)
        m1 == IF st = "timeout" THEN Append(m0, "Worker killed due to timeout") ELSE m0
        m2 == IF returncode = SEGFAULT_CODE
              THEN <<"Segmentation fault (core dumped)">>
              ELSE IF returncode = COMPILATION_ERROR
                   THEN <<"Error: empty submission code.">>
                   ELSE m1
    IN IF returncode # 0 THEN Replace(m2, PAUSE_NOT_FOUND, OUT_OF_MEMORY) ELSE m1

\* faulty variant of Message: the segmentation fault has no text of its own
MessageNoSegfault(st, returncode, text) ==
    LET m0 == get_traceback(text)
        m1 == IF st = "timeout" THEN Append(m0, "Worker killed due to timeout") ELSE m0
        m2 == IF returncode = EMPTY_SUBMISSION
              THEN <<"Error: empty submission code.">>
              ELSE m1
    IN IF returncode # 0 THEN Replace(m2, PAUSE_NOT_FOUND, OUT_OF_MEMORY) ELSE m1

\* lines 341-361: the message handed to the caller
Message(st, returncode, text) ==
    LET m0 == get_traceback(text)
        m1 == IF st = "timeout" THEN Append(m0, "Worker killed due to timeout") ELSE m0
        m2 == IF returncode = SEGFAULT_CODE
              THEN <<"Segmentation fault (core dumped)">>
              ELSE IF returncode = EMPTY_SUBMISSION
                   THEN <<"Error: empty submission code.">>
                   ELSE m1
    IN IF returncode # 0 THEN Replace(m2, PAUSE_NOT_FOUND, OUT_OF_MEMORY) ELSE m1

\* lines 346-349: the exit code handed to the caller
ReturnCode(st, rc) == IF st = "timeout" THEN TIMEOUT_CODE ELSE rc

\* faulty variant of CollectReady: a timed-out worker is not collected
CollectReadyNoTimeout(st) == st \in {"finished", "running"}

\* line 338: the states collect_results collects from
CollectReady(st) == st \in {"finished", "running", "timeout"}

\* faulty variant of NotLaunched: a worker that was set up counts as launched
NotLaunchedOnlyInitialized(st) == st = "initialized"

\* lines 325-337: the states in which nothing was launched yet
NotLaunched(st) == st \in {"initialized", "setup"}

\* faulty variant of PredictionsAfter: without the rmtree, copytree fails on a
\* directory that exists and the earlier copy stays
PredictionsKeepExisting(pred, out, returncode) == IF pred.exists THEN pred ELSE out

\* faulty variant of PredictionsAfter: the copy is made on success only
PredictionsOnSuccess(pred, out, returncode) == IF returncode = 0 THEN out ELSE pred

\* lines 366-367: rmtree(pred_dir) then copytree(output_training_dir, pred_dir),
\* whatever the exit code
PredictionsAfter(pred, out, returncode) == out

collect_results ==
    /\ pc = "idle"
    /\ UNCHANGED <<return_code, python_bin_path, config, log, training_output, pc, now,
                   locals, proc, orphans, max_observed, launch_time, compiler, judge>>
    /\ IF NotLaunched(status)
       THEN /\ ret' = Outcome("collect_results", "ValueError")
            /\ UNCHANGED <<status, pred_dir>>
       ELSE IF CollectReady(status)
       THEN /\ pred_dir' = PredictionsAfter(pred_dir, training_output,
                                             ReturnCode(status, return_code))
            /\ status' = "collected"
            /\ ret' = [op |-> "collect_results", kind |-> "result",
                       code |-> ReturnCode(status, return_code),
                       msg |-> Message(status, ReturnCode(status, return_code), log)]
       ELSE /\ ret' = Outcome("collect_results", "None")
            /\ UNCHANGED <<status, pred_dir>>

\* super().teardown(): the worker is torn down
super_teardown == "killed"

\* ---- teardown(), lines 117-129 ----
teardown ==
    /\ pc = "idle"
    /\ UNCHANGED <<return_code, python_bin_path, inputs, log, pred_dir, pc, now,
                   locals, proc, orphans, max_observed, launch_time, compiler, judge>>
    /\ IF status \notin {"collected", "retry"}
       THEN /\ ret' = Outcome("teardown", "ValueError")
            /\ UNCHANGED <<status, training_output, kit_dir>>
       ELSE /\ \E k \in {"same", "other"} :
                 /\ kit_dir \in {"unread", k}
                 /\ kit_dir' = k
            /\ training_output' = IF kit_dir' = "same" THEN NoDir ELSE training_output
            /\ status' = super_teardown
            /\ ret' = Outcome("teardown", "returned")

Next ==
    \/ setup /\ UNCHANGED others
    \/ launch_submission /\ UNCHANGED others
    \/ BatchStart /\ UNCHANGED others
    \/ Popen /\ UNCHANGED others
    \/ Wait /\ UNCHANGED others
    \/ Join /\ UNCHANGED others
    \/ TimeoutExpired /\ UNCHANGED others
    \/ Score /\ UNCHANGED others
    \/ collect_results /\ UNCHANGED others
    \/ teardown /\ UNCHANGED others
    \/ Tick /\ UNCHANGED others
    \/ OrphansEnd /\ UNCHANGED others

Spec == Init /\ [][Next]_vars

(***************************************************************************)
(* rampbkd/api.py                                                          *)
(***************************************************************************)
ApiOutcome(op, kind, arg, touched, result) ==
    [op |-> op, kind |-> kind, arg |-> arg, touched |-> touched, result |-> result]

\* faulty variant of KnownState: every state is taken
KnownStateAny(state) == TRUE

\* lines 58 and 146: state in STATES
KnownState(state) == state \in STATES

\* ---- get_submissions(), lines 31-84 ----
get_submissions ==
    /\ \E state \in RequestStates :
          api_ret' =
              IF ~KnownState(state)
              THEN ApiOutcome("get_submissions", "UnknownStateError", state, FALSE, {})
              ELSE ApiOutcome("get_submissions", "returned", state, TRUE,
                              {s \in Submissions : db[s].state = state})
    /\ UNCHANGED <<db, worker_vars, team_vars, pool_vars>>

\* ---- set_submission_state(), lines 125-166 ----
set_submission_state ==
    /\ \E s \in Submissions, state \in RequestStates :
          IF ~KnownState(state)
          THEN /\ api_ret' = ApiOutcome("set_submission_state", "UnknownStateError",
                                        state, FALSE, {})
               /\ UNCHANGED db
          ELSE /\ db' = [db EXCEPT ![s] = set_state(state)]
               /\ api_ret' = ApiOutcome("set_submission_state", "returned", state,
                                        TRUE, {s})
    /\ UNCHANGED <<worker_vars, team_vars, pool_vars>>

\* str.lower() on the extensions a caller may pass
Lower(ext) == IF ext = "NPZ" THEN "npz" ELSE ext

\* _load_submission(), lines 280-293: what the call ends with for a file that
\* numpy can or cannot read; with an unknown extension the message
\* "... {ext}".format(ext) names a field the call does not pass
load_submission(ext, readable) ==
    IF Lower(ext) \in {"npy", "npz"}
    THEN IF readable THEN "loaded" ELSE "OSError"
    ELSE IF Lower(ext) = "csv"
         THEN "AttributeError"
         ELSE "KeyError"

\* ---- set_predictions(), lines 205-254: the folds are committed one by one,
\* up to the first fold k whose files do not load ----
set_predictions ==
    /\ \E s \in Submissions, ext \in Extensions, k \in 0..NFolds :
          LET done == {f \in Folds : f < k}
              end == IF k = NFolds THEN "loaded" ELSE load_submission(ext, FALSE)
          IN /\ \A f \in done : load_submission(ext, TRUE) = "loaded"
             /\ db' = [db EXCEPT ![s] =
                          [state |-> IF end = "loaded" THEN "tested" ELSE @.state,
                           folds |-> [f \in Folds |->
                                         IF f \in done THEN "tested" ELSE @.folds[f]]]]
             /\ api_ret' = ApiOutcome("set_predictions",
                                      IF end = "loaded" THEN "returned" ELSE end,
                                      ext, TRUE, {s})
    /\ UNCHANGED <<worker_vars, team_vars, pool_vars>>

\* faulty variant of Scorable: a submission is scored from any state
ScorableAny(state) == TRUE

\* line 312: the state score_submission scores from
Scorable(state) == state = "tested"

\* ---- score_submission(), lines 296-347: the fold states are committed at
\* line 324, the state of the submission at line 347 ----
score_submission ==
    /\ \E s \in Submissions :
          IF ~Scorable(db[s].state)
          THEN /\ api_ret' = ApiOutcome("score_submission", "ValueError", "", TRUE, {s})
               /\ UNCHANGED db
          ELSE \E end \in {"fold_scores_fail", "bagged_scores_fail", "returned"} :
               /\ api_ret' = ApiOutcome("score_submission", end, "", TRUE, {s})
               /\ db' = [db EXCEPT ![s] =
                            [state |-> IF end = "returned" THEN "scored" ELSE @.state,
                             folds |-> IF end = "fold_scores_fail"
                                       THEN @.folds
                                       ELSE [f \in Folds |-> "scored"]]]
    /\ UNCHANGED <<worker_vars, team_vars, pool_vars>>

ApiInit == WorkerQuiet /\ ApiQuiet /\ TeamQuiet /\ PoolQuiet

ApiNext ==
    \/ get_submissions
    \/ set_submission_state
    \/ set_predictions
    \/ score_submission

SpecApi == ApiInit /\ [][ApiNext]_vars

(***************************************************************************)
(* ramp_database/tools/team.py and ramp_frontend/views/team.py             *)
(***************************************************************************)
TeamOutcome(op, user, event, status_code, location) ==
    [op |-> op, user |-> user, event |-> event, status |-> status_code,
     location |-> location, left |-> {}]

LOGIN == "/login"
PROBLEMS == "/problems"
\* url_for("team.my_teams", event_name=event_name)
TeamPage(event) == <<"/events", event, "team">>

\* ---- tools/team.py add_team(), lines 16-48: a UserTeam row is made for the
\* admin unless the team is named after the user ----
add_team ==
    /\ \E t \in SharedTeams, u \in Users :
          /\ t \notin teams
          /\ teams' = teams \cup {t}
          /\ user_teams' = [user_teams EXCEPT ![<<u, t>>] = "accepted"]
          /\ team_ret' = TeamOutcome("add_team", u, NonExistingEvent, 0, "")
    /\ UNCHANGED <<event_teams, worker_vars, api_vars, pool_vars>>

\* ---- tools/team.py sign_up_team(), lines 113-136 ----
sign_up_team ==
    /\ \E e \in Events, t \in Users \cup teams :
          /\ event_teams' = event_teams \cup {<<e, t>>}
          /\ team_ret' = TeamOutcome("sign_up_team", Anonymous, e, 0, "")
    /\ UNCHANGED <<teams, user_teams, worker_vars, api_vars, pool_vars>>

\* faulty variant of Leaves: the event of the team is not looked at
LeavesAnyEvent(u, t, event, user) == user_teams[<<u, t>>] = "accepted" /\ u = user

\* tools/team.py lines 66-73: the rows of UserTeam the query selects
Leaves(u, t, event, user) ==
    /\ user_teams[<<u, t>>] = "accepted"
    /\ u = user
    /\ <<event, t>> \in event_teams

\* the teams of the rows Query.delete() removes
Left(event, user) == {t \in SharedTeams : Leaves(user, t, event, user)}

\* ---- tools/team.py leave_all_teams(), lines 51-75: the table afterwards ----
leave_all_teams(event, user) ==
    [p \in Users \X SharedTeams |->
        IF Leaves(p[1], p[2], event, user) THEN "none" ELSE user_teams[p]]

\* is_accessible_event: the event exists
is_accessible_event(event, user) == event \in Events

\* is_accessible_code: the user is signed up to the event and approved
is_accessible_code(event, user) == <<event, user>> \in event_teams

\* lines 36-47: the request passes _validate_team_request
Validated(event, user) ==
    is_accessible_event(event, user) /\ is_accessible_code(event, user)

\* get_event_team_by_user_name: the team the user takes part in the event with
CurrentTeam(event, user) ==
    LET joined == {t \in SharedTeams :
                      user_teams[<<user, t>>] = "accepted" /\ <<event, t>> \in event_teams}
    IN IF joined = {} THEN user ELSE CHOOSE t \in joined : TRUE

\* what flask_login.login_required and _validate_team_request answer before
\* the body of a view runs: "" when the body runs
Refused(user, event) ==
    IF user = Anonymous THEN LOGIN
    ELSE IF ~Validated(event, user) THEN PROBLEMS
    ELSE ""

\* ---- my_teams(), lines 49-93 ----
my_teams ==
    /\ \E user \in Users \cup {Anonymous}, event \in Events \cup {NonExistingEvent},
          method \in {"GET", "POST"}, form \in BOOLEAN, team_name \in TeamNames :
          LET op == IF method = "GET" THEN "my_teams GET" ELSE "my_teams POST" IN
          IF Refused(user, event) # ""
          THEN /\ team_ret' = TeamOutcome(op, user, event, 302, Refused(user, event))
               /\ UNCHANGED team_db
          ELSE IF method = "GET" \/ (form /\ team_name \in Users \cup teams)
          THEN /\ team_ret' = TeamOutcome(op, user, event, 200, "")
               /\ UNCHANGED team_db
          ELSE IF ~form
          THEN /\ team_ret' = TeamOutcome(op, user, event, 400, "")
               /\ UNCHANGED team_db
          ELSE \* line 72: add_team() takes no argument is_individual
               /\ user_teams' = leave_all_teams(event, user)
               /\ team_ret' = TeamOutcome(op, user, event, 500, "")
               /\ UNCHANGED <<teams, event_teams>>
    /\ UNCHANGED <<worker_vars, api_vars, pool_vars>>

\* ---- leave_teams(), lines 95-110 ----
leave_teams ==
    /\ \E user \in Users \cup {Anonymous}, event \in Events \cup {NonExistingEvent} :
          IF Refused(user, event) # ""
          THEN /\ team_ret' = TeamOutcome("leave_teams", user, event, 302,
                                          Refused(user, event))
               /\ UNCHANGED team_db
          ELSE /\ user_teams' = leave_all_teams(event, user)
               /\ team_ret' = [TeamOutcome("leave_teams", user, event, 302,
                                           TeamPage(event))
                                   EXCEPT !.left = Left(event, user)]
               /\ UNCHANGED <<teams, event_teams>>
    /\ UNCHANGED <<worker_vars, api_vars, pool_vars>>

\* ---- add_team_members(), lines 113-140: the form is read first ----
add_team_members ==
    /\ \E user \in Users \cup {Anonymous}, event \in Events \cup {NonExistingEvent},
          form \in BOOLEAN, invited \in Users :
          IF user = Anonymous
          THEN /\ team_ret' = TeamOutcome("add_team_members", user, event, 302, LOGIN)
               /\ UNCHANGED team_db
          ELSE IF ~form
          THEN /\ team_ret' = TeamOutcome("add_team_members", user, event, 400, "")
               /\ UNCHANGED team_db
          ELSE IF ~Validated(event, user)
          THEN /\ team_ret' = TeamOutcome("add_team_members", user, event, 302, PROBLEMS)
               /\ UNCHANGED team_db
          ELSE LET t == CurrentTeam(event, user) IN
               /\ user_teams' =
                      IF t \in SharedTeams /\ user_teams[<<invited, t>>] = "none"
                      THEN [user_teams EXCEPT ![<<invited, t>>] = "asked"]
                      ELSE user_teams
               /\ team_ret' = TeamOutcome("add_team_members", user, event, 302,
                                          TeamPage(event))
               /\ UNCHANGED <<teams, event_teams>>
    /\ UNCHANGED <<worker_vars, api_vars, pool_vars>>

\* ---- manage_team_invites(), lines 144-164: the form is read first ----
manage_team_invites ==
    /\ \E user \in Users \cup {Anonymous}, event \in Events \cup {NonExistingEvent},
          form \in BOOLEAN, team_id \in SharedTeams :
          IF user = Anonymous
          THEN /\ team_ret' = TeamOutcome("manage_team_invites", user, event, 302, LOGIN)
               /\ UNCHANGED team_db
          ELSE IF ~form
          THEN /\ team_ret' = TeamOutcome("manage_team_invites", user, event, 400, "")
               /\ UNCHANGED team_db
          ELSE IF ~Validated(event, user)
          THEN /\ team_ret' = TeamOutcome("manage_team_invites", user, event, 302, PROBLEMS)
               /\ UNCHANGED team_db
          ELSE IF team_id \notin teams
          THEN /\ team_ret' = TeamOutcome("manage_team_invites", user, event, 500, "")
               /\ UNCHANGED team_db
          ELSE /\ user_teams' =
                      IF user_teams[<<user, team_id>>] = "asked"
                      THEN [user_teams EXCEPT ![<<user, team_id>>] = "accepted"]
                      ELSE user_teams
               /\ team_ret' = TeamOutcome("manage_team_invites", user, event, 302,
                                          TeamPage(event))
               /\ UNCHANGED <<teams, event_teams>>
    /\ UNCHANGED <<worker_vars, api_vars, pool_vars>>

TeamInit == WorkerQuiet /\ ApiQuiet /\ TeamQuiet /\ PoolQuiet

TeamNext ==
    \/ add_team
    \/ sign_up_team
    \/ my_teams
    \/ leave_teams
    \/ add_team_members
    \/ manage_team_invites

SpecTeam == TeamInit /\ [][TeamNext]_vars

(***************************************************************************)
(* The Dispatcher: one cycle is made of the steps below                    *)
(***************************************************************************)
\* faulty variant of HasRoom: a worker is added to a pool that is full
HasRoomFull(size, n) == size <= n

\* step 2: pool size < capacity
HasRoom(size, n) == size < n

\* step 1: the submissions a cycle may start
Eligible == {s \in Pending : store[s] = "new"}

\* the pool without its i-th worker
Without(i) == [k \in 1..(Len(pool) - 1) |-> IF k < i THEN pool[k] ELSE pool[k + 1]]

\* step 2: the oldest eligible submission gets a worker, which enters the
\* pool unless its setup fails
launch_worker ==
    /\ HasRoom(Len(pool), capacity)
    /\ Eligible # {}
    /\ LET s == CHOOSE x \in Eligible : \A y \in Eligible : x <= y IN
       \E ok \in BOOLEAN :
          IF ok
          THEN /\ pool' = Append(pool, [id |-> s, status |-> "running"])
               /\ store' = [store EXCEPT ![s] = "training"]
          ELSE /\ store' = [store EXCEPT ![s] = "error"]
               /\ UNCHANGED pool
    /\ UNCHANGED <<capacity, worker_vars, api_vars, team_vars>>

\* step 3: the status check finds a running worker finished, in error, or
\* past its timeout
check_status ==
    /\ \E i \in 1..Len(pool), st \in {"finished", "timeout", "error"} :
          /\ pool[i].status = "running"
          /\ pool' = [pool EXCEPT ![i].status = st]
    /\ UNCHANGED <<capacity, store, worker_vars, api_vars, team_vars>>

\* step 4: a worker in a terminal state is collected, torn down and removed
collect_and_remove ==
    /\ \E i \in 1..Len(pool) :
          /\ pool[i].status \in {"finished", "timeout", "error"}
          /\ store' = [store EXCEPT ![pool[i].id] =
                           IF pool[i].status = "finished" THEN "tested"
                           ELSE "training_error"]
          /\ pool' = Without(i)
    /\ UNCHANGED <<capacity, worker_vars, api_vars, team_vars>>

\* the external caller submits again a submission that failed
resubmit ==
    /\ \E s \in Pending :
          /\ store[s] \in {"error", "training_error"}
          /\ store' = [store EXCEPT ![s] = "new"]
    /\ UNCHANGED <<capacity, pool, worker_vars, api_vars, team_vars>>

PoolInit ==
    /\ WorkerQuiet /\ ApiQuiet /\ TeamQuiet
    /\ capacity \in 1..MaxCapacity
    /\ store = [s \in Pending |-> "new"]
    /\ pool = <<>>

PoolNext ==
    \/ launch_worker
    \/ check_status
    \/ collect_and_remove
    \/ resubmit

SpecPool == PoolInit /\ [][PoolNext]_vars

(***************************************************************************)
(* Claims                                                                  *)
(***************************************************************************)
LaunchReturned == pc = "idle" /\ ret.op = "launch_submission"

\* C1: every wait for a test-case process ends by launch time + timeout, so
\* that all batches share one wall-clock budget (claim as stated).
C1_SharedDeadline == pc = "communicate" => endtime <= launch_time + timeout

\* C2: once a test-case process has returned a positive exit code, no
\* further process is started by that launch (claim as stated).
C2_ShortCircuit ==
    [][max_observed > 0 => \A i \in Cases : proc'[i] = "live" => proc[i] = "live"]_vars

\* C3: while the test cases run and when the batch loop has ended, the exit
\* code of the worker is the largest code observed so far, counted from 0:
\* it is 0 when no positive code was observed, a negative code does not
\* lower it; a launch that ends on a positive code keeps it as its result.
C3_MaxExitCode ==
    /\ pc \in {"batch", "popen", "wait", "communicate", "aggregate"}
           => return_code = max_observed
    /\ (LaunchReturned /\ status = "finished" /\ max_observed > 0)
           => return_code = max_observed

\* C3 witness: the batch loop has ended with a segmentation fault as the
\* largest code observed.
C3_Witness == pc = "aggregate" /\ max_observed = SEGFAULT_CODE /\ return_code = SEGFAULT_CODE

\* C4: when launch_submission has returned with status timeout, no process
\* started by the worker is left running (claim as stated).
C4_KilledOnTimeout == (LaunchReturned /\ status = "timeout") => orphans = 0

EmptyCode ==
    /\ solution_cpp # Absent \/ main_java # Absent
    /\ \A f \in {solution_cpp, main_java} : f = Absent \/ f < EMPTY_LEN

\* C6: a launch of a submission whose code is empty ends with exit code 1223
\* and no compiler was invoked (claim as stated).
C6_EmptyRejected ==
    (LaunchReturned /\ EmptyCode) => (return_code = EMPTY_SUBMISSION /\ compiler = "none")

CompileFailed == compiler # "none" /\ ~compiles

C8_JudgeOnlyOnZero ==
    /\ judge # "not_invoked" => max_observed = 0
    /\ judge = "failed" => return_code = SCORING_ERROR
    /\ judge = "passed" => return_code = 0
    /\ (judge # "not_invoked" /\ ret.op = "collect_results" /\ ret.kind = "result")
          => ret.code = return_code

\* C8 witness: the judge failed and the scoring error has been collected.
C8_Witness ==
    judge = "failed" /\ ret.op = "collect_results" /\ ret.code = SCORING_ERROR

\* C9: at every instant at most batch_size test-case processes of the worker
\* are live (claim as stated).
C9_AtMostBatchSize == LiveCount <= batch_size

BatchOf(i) == i \div batch_size

\* C10: while a process of one batch is live, no process of a later batch of
\* the launch has been started.
C10_BatchOrder ==
    \A i, k \in Cases :
        (proc[i] = "live" /\ BatchOf(i) < BatchOf(k)) => proc[k] = "none"

\* C10 witness: the second batch runs, every process of the first is joined.
C10_Witness ==
    /\ n_batch = 1 /\ pc = "communicate"
    /\ \A i \in Cases : BatchOf(i) = 0 => proc[i] = "joined"
    /\ \A i \in Cases : BatchOf(i) = 1 => proc[i] = "live"

\* C11: a batch whose start finds the budget of the launch (launch time +
\* timeout) already used up starts no process: the worker goes to timeout
\* instead (claim as stated).
C11_NoLaunchAfterBudget ==
    [][(pc = "popen" /\ now >= launch_time + timeout)
          => \A i \in Cases : proc'[i] = "live" => proc[i] = "live"]_vars

LifecycleSteps ==
    {<<"initialized", "setup">>, <<"setup", "running">>,
     <<"running", "finished">>, <<"running", "timeout">>, <<"running", "error">>,
     <<"finished", "collected">>, <<"timeout", "collected">>, <<"error", "collected">>,
     <<"error", "retry">>, <<"timeout", "retry">>,
     <<"collected", "killed">>, <<"retry", "killed">>}

\* C13: the status changes only along initialized -> setup -> running ->
\* finished | timeout | error -> collected -> torn down: launch_submission
\* takes effect only from setup, collect_results only from a terminal status,
\* teardown only from collected or retry (claim as stated).
C13_Lifecycle == [][status' # status => <<status, status'>> \in LifecycleSteps]_vars

\* C14: while test-case processes of the submission execute, the call of
\* launch_submission that started them has returned and the status of the
\* worker is running (claim as stated).
C14_LaunchDoesNotBlock == Live # {} => (pc = "idle" /\ status = "running")

\* a collect_results call that collects: the status goes to collected
Collects == CollectReady(status) /\ status' = "collected"

\* C15: a collect_results call that collects exit code 0 leaves in
\* predictions_dir/<name> exactly the files of training_output, which it
\* does not change: nothing of an earlier copy stays.
C15_RoundTrip ==
    [][(Collects /\ ret'.code = 0)
          => (pred_dir' = training_output /\ training_output' = training_output)]_vars

\* C15 witness: a run whose judge passed has been collected with exit code
\* 0 and predictions_dir/<name> holds the ten case outputs and the score.
C15_Witness ==
    /\ status = "collected" /\ ret.op = "collect_results" /\ ret.kind = "result"
    /\ ret.code = 0 /\ judge = "passed"
    /\ pred_dir.exists /\ pred_dir.cases = Cases /\ pred_dir.score

\* C16 (as stated): a collect_results call that collects a non-zero exit code
\* leaves predictions_dir/<name> as it was: an existing directory is not
\* changed and none is created.
C16_CopyOnSuccessOnly == [][(Collects /\ ret'.code # 0) => pred_dir' = pred_dir]_vars

\* C16 (amended): a collect_results call that collects a non-zero exit code
\* too replaces predictions_dir/<name> by a copy of training_output, creating
\* it when it did not exist.
C16_CopyOnFailureToo ==
    [][(Collects /\ ret'.code # 0)
          => (pred_dir' = training_output /\ pred_dir'.exists)]_vars

\* C16 witness: a run that failed on a test case has been collected and
\* predictions_dir/<name> holds case outputs without a score.
C16_Witness ==
    /\ status = "collected" /\ ret.op = "collect_results" /\ ret.kind = "result"
    /\ ret.code = 1
    /\ pred_dir.exists /\ pred_dir.cases # {} /\ ~pred_dir.score

SEGFAULT_MESSAGE == <<"Segmentation fault (core dumped)">>

\* a collect_results call has returned the result of the last launch
Collected == ret.op = "collect_results" /\ ret.kind = "result"

TableCodes ==
    {0, TIMEOUT_CODE, SEGFAULT_CODE, COMPILATION_ERROR, RUNTIME_ERROR, SCORING_ERROR,
     EMPTY_SUBMISSION}

\* C18: every exit code collect_results returns is one of the table, a
\* non-zero exit of a test-case process that is neither a timeout nor a
\* segmentation fault being reported as 1221 (claim as stated).
C18_CodesOfTable == Collected => ret.code \in TableCodes

\* C19: when exit code 124 is reported for a launch, because a test-case
\* process ran past the timeout, no process started by the worker is left
\* running (claim as stated, seen from the worker).
C19_TimeoutReportedAndTerminated == (Collected /\ ret.code = TIMEOUT_CODE) => orphans = 0

\* C20: when teardown has returned on a collected worker, the
\* training_output directory launch_submission created under
\* submissions_dir/<name> does not exist any more (claim as stated).
C20_TrainingOutputRemoved ==
    (status = super_teardown /\ ret.op = "teardown" /\ ret.kind = "returned")
        => ~training_output.exists

\* C27: a collect_results call on a worker on which nothing was launched
\* (status initialized or setup) raises an error and changes neither the
\* status of the worker nor predictions_dir/<name>.
C27_CollectBeforeLaunchRaises ==
    [][(status \in {"initialized", "setup"} /\ ret'.op = "collect_results" /\ ret' # ret)
          => (ret'.kind = "ValueError" /\ status' = status /\ pred_dir' = pred_dir)]_vars

\* C27 witness: collect_results has raised on a worker that was set up and
\* never launched; the worker is still in setup, without predictions.
C27_Witness ==
    /\ status = "setup" /\ ret.op = "collect_results" /\ ret.kind = "ValueError"
    /\ pred_dir = NoDir

\* C28: collect_results returns exit code 0 only for a launch whose
\* compilation succeeded, whose ten test cases all ran to their end with a
\* non-positive code, and whose judge was invoked and passed (claim as
\* stated).
C28_ZeroOnlyOnSuccess ==
    (Collected /\ ret.code = 0) =>
        /\ compiler # "none" /\ compiles
        /\ training_output.cases = Cases
        /\ max_observed = 0
        /\ judge = "passed"

C22_UnknownStateRejected ==
    [][(/\ api_ret'.op \in {"get_submissions", "set_submission_state"}
        /\ api_ret'.arg \notin STATES
        /\ api_ret' # api_ret)
          => /\ api_ret'.kind = "UnknownStateError"
             /\ ~api_ret'.touched /\ api_ret'.result = {}
             /\ db' = db]_vars

\* C22 witness: set_submission_state has raised UnknownStateError on a
\* database that holds a tested submission.
C22_Witness ==
    /\ api_ret.op = "set_submission_state" /\ api_ret.kind = "UnknownStateError"
    /\ api_ret.arg = "bogus"
    /\ \E s \in Submissions : db[s].state = "tested"

\* C23: a score_submission call on a submission that is not tested raises
\* ValueError and leaves the states of the submission and of its folds as
\* they were; a call that returns leaves the submission and every fold of
\* it scored, and changes no other submission.
C23_ScoredOnlyFromTested ==
    [][(api_ret'.op = "score_submission" /\ <<db, api_ret>>' # <<db, api_ret>>)
          => \A s \in api_ret'.result :
                /\ IF db[s].state # "tested"
                   THEN api_ret'.kind = "ValueError" /\ db' = db
                   ELSE api_ret'.kind = "returned" => db'[s] = set_state("scored")
                /\ \A o \in Submissions \ {s} : db'[o] = db[o]]_vars

\* C23 witness: score_submission has returned and the submission and its
\* folds are scored.
C23_Witness ==
    /\ api_ret.op = "score_submission" /\ api_ret.kind = "returned"
    /\ \E s \in api_ret.result : db[s] = set_state("scored")

\* C24: a set_predictions call with an extension that is none of npy, npz,
\* csv raises NotImplementedError (claim as stated).
C24_UnknownExtensionRaises ==
    [][(/\ api_ret'.op = "set_predictions"
        /\ Lower(api_ret'.arg) \notin {"npy", "npz", "csv"}
        /\ api_ret' # api_ret)
          => api_ret'.kind = "NotImplementedError"]_vars

Routes ==
    {"my_teams GET", "my_teams POST", "leave_teams", "add_team_members",
     "manage_team_invites"}

\* C25: whatever form data it carries, a request to a team route is answered
\* 302 to /login when nobody is logged in, and 302 to /problems when the
\* user who is logged in asks for an event that does not exist or that the
\* user is not signed up to (claim as stated).
C25_TeamAccess ==
    [][(team_ret'.op \in Routes /\ team_vars' # team_vars) =>
          /\ team_ret'.user = Anonymous =>
                (team_ret'.status = 302 /\ team_ret'.location = LOGIN)
          /\ (/\ team_ret'.user \in Users
              /\ \/ team_ret'.event \notin Events
                 \/ <<team_ret'.event, team_ret'.user>> \notin event_teams) =>
                (team_ret'.status = 302 /\ team_ret'.location = PROBLEMS)]_vars

\* C26: a request to leave the teams of an event, made by a user who is
\* signed up to it, is answered 302 to the team page of the event and
\* removes the accepted memberships of that user in the teams signed up to
\* that event, and nothing else: no other row of UserTeam, no team, no
\* sign-up; the individual team of the user stays signed up to the event.
C26_LeaveRemovesExactly ==
    [][(/\ team_ret'.op = "leave_teams"
        /\ team_vars' # team_vars
        /\ team_ret'.user \in Users
        /\ <<team_ret'.event, team_ret'.user>> \in event_teams) =>
          /\ team_ret'.status = 302
          /\ team_ret'.location = <<"/events", team_ret'.event, "team">>
          /\ \A u \in Users, t \in SharedTeams :
                user_teams'[<<u, t>>] =
                    IF /\ u = team_ret'.user
                       /\ user_teams[<<u, t>>] = "accepted"
                       /\ <<team_ret'.event, t>> \in event_teams
                    THEN "none"
                    ELSE user_teams[<<u, t>>]
          /\ teams' = teams
          /\ event_teams' = event_teams
          /\ <<team_ret'.event, team_ret'.user>> \in event_teams']_vars

\* C26 witness: a user has left a team of the event, in which another user
\* stays, and is still signed up to the event with the individual team.
C26_Witness ==
    /\ team_ret.op = "leave_teams" /\ team_ret.status = 302
    /\ team_ret.left # {}
    /\ \A t \in team_ret.left : user_teams[<<team_ret.user, t>>] = "none"
    /\ \E u \in Users, t \in team_ret.left : user_teams[<<u, t>>] = "accepted"
    /\ <<team_ret.event, team_ret.user>> \in event_teams

\* C21: the pool never holds more workers than the configured capacity, and
\* no submission has two workers in it.
C21_PoolBounded ==
    /\ Len(pool) <= capacity
    /\ \A i, k \in 1..Len(pool) : pool[i].id = pool[k].id => i = k

\* C21 witness: the pool is full, with two workers, while a submission waits.
C21_Witness ==
    /\ capacity = MaxCapacity /\ Len(pool) = capacity
    /\ \E s \in Pending : store[s] = "new"

====
